---- MODULE Spec2Model ----
(***************************************************************************)
(* A model of src/app.py: the rule-based SEO content pipeline               *)
(* (AutomatedSEOContentStrategist) and the three-step Streamlit session     *)
(* that drives it.  Python strings are TLA+ strings, read character by      *)
(* character with SubSeq; Python lists are sequences; insertion-ordered     *)
(* dicts are sequences of pairs; st.session_state is a record whose DOMAIN  *)
(* is the set of keys that are present.                                     *)
(***************************************************************************)
EXTENDS Integers, Sequences, FiniteSets, TLC

VARIABLES session_state, input, output

vars == <<session_state, input, output>>

(***************************************************************************)
(* Bounds of the model.                                                     *)
(***************************************************************************)
\* competitor texts are built from at most MaxWords vocabulary words
MaxWords == 3
\* the sitemap lists at most MaxPages pages
MaxPages == 13

(***************************************************************************)
(* Python str helpers.                                                      *)
(***************************************************************************)
LowerLetters == "abcdefghijklmnopqrstuvwxyz"

UpperLetters == "ABCDEFGHIJKLMNOPQRSTUVWXYZ"

Digits == "0123456789"

Char(s, i) == SubSeq(s, i, i)

CharsOf(s) == {Char(s, i) : i \in 1..Len(s)}

LowerSet == CharsOf(LowerLetters)

UpperSet == CharsOf(UpperLetters)

LetterSet == LowerSet \cup UpperSet

\* \w of the re module, on ASCII text
WordCharSet == LetterSet \cup CharsOf(Digits) \cup {"_"}

\* the lower-case letter of each upper-case letter, and back
ToLower == [c \in UpperSet |-> Char(LowerLetters, CHOOSE i \in 1..Len(UpperLetters) : Char(UpperLetters, i) = c)]

ToUpper == [c \in LowerSet |-> Char(UpperLetters, CHOOSE i \in 1..Len(LowerLetters) : Char(LowerLetters, i) = c)]

IsLetter(c) == c \in LetterSet

IsWordChar(c) == c \in WordCharSet

\* str.split() separators
IsSpace(c) == c \in {" ", "\n", "\t"}

LowerChar(c) == IF c \in UpperSet THEN ToLower[c] ELSE c

UpperChar(c) == IF c \in LowerSet THEN ToUpper[c] ELSE c

RECURSIVE JoinChars(_, _, _)
\* the string made of chars[lo..hi], each a string
JoinChars(chars, lo, hi) ==
    IF lo > hi THEN ""
    ELSE IF lo = hi THEN chars[lo]
    ELSE JoinChars(chars, lo, (lo + hi) \div 2) \o JoinChars(chars, (lo + hi) \div 2 + 1, hi)

\* str.lower()
StrLower(s) == JoinChars([i \in 1..Len(s) |-> LowerChar(Char(s, i))], 1, Len(s))

\* str.title(): a letter that follows a letter is lower-cased, any other letter is
\* upper-cased, and the other characters are kept
StrTitle(s) ==
    JoinChars([i \in 1..Len(s) |->
                  IF i > 1 /\ IsLetter(Char(s, i - 1))
                  THEN LowerChar(Char(s, i)) ELSE UpperChar(Char(s, i))], 1, Len(s))

\* str.replace(old, new) for a one-character old
StrReplaceChar(s, old, new) ==
    JoinChars([i \in 1..Len(s) |-> IF Char(s, i) = old THEN new ELSE Char(s, i)], 1, Len(s))

\* the Python test  sub in s
Contains(sub, s) ==
    \E i \in 1..(Len(s) - Len(sub) + 1) : SubSeq(s, i, i + Len(sub) - 1) = sub

\* the k-th smallest member of a set of integers
Nth(S, k) == CHOOSE i \in S : Cardinality({j \in S : j < i}) = k - 1

\* str.split(sep) for a one-character sep: the fields between consecutive
\* separators, empty fields kept
StrSplit(s, sep) ==
    LET cuts == {i \in 1..Len(s) : Char(s, i) = sep} \cup {0, Len(s) + 1}
    IN  [k \in 1..(Cardinality(cuts) - 1) |-> SubSeq(s, Nth(cuts, k) + 1, Nth(cuts, k + 1) - 1)]

RECURSIVE Ascending(_, _, _)
\* the members of S within lo..hi, in ascending order
Ascending(S, lo, hi) ==
    IF lo > hi THEN <<>>
    ELSE IF lo = hi THEN (IF lo \in S THEN <<lo>> ELSE <<>>)
    ELSE Ascending(S, lo, (lo + hi) \div 2) \o Ascending(S, (lo + hi) \div 2 + 1, hi)

\* the maximal runs of consecutive positions in the set kept, a subset of 1..len,
\* as <<first, last>> in left-to-right order
Runs(kept, len) ==
    LET starts == Ascending({i \in kept : i - 1 \notin kept}, 1, len)
        ends   == Ascending({i \in kept : i + 1 \notin kept}, 1, len)
    IN  [k \in 1..Len(starts) |-> <<starts[k], ends[k]>>]

\* str.split(): maximal runs of non-whitespace
StrSplitWhitespace(s) ==
    LET runs == Runs({i \in 1..Len(s) : ~IsSpace(Char(s, i))}, Len(s))
    IN  [k \in 1..Len(runs) |-> SubSeq(s, runs[k][1], runs[k][2])]

Min(a, b) == IF a < b THEN a ELSE b

\* the slice seq[lo:hi] of Python, for 0 <= lo <= hi
Slice(seq, lo, hi) == SubSeq(seq, lo + 1, Min(hi, Len(seq)))

(***************************************************************************)
(* analyze_competitor_content                                               *)
(***************************************************************************)
\* {4,} of the token pattern
MinTokenLen == 4

AllLetters(s) == \A i \in 1..Len(s) : IsLetter(Char(s, i))

\* re.findall(r'\b[a-zA-Z]{4,}\b', content.lower()): a maximal run of word
\* characters is a match when it is letters only and long enough, since \b
\* forbids a match that touches a digit or an underscore
FindWords(content) ==
    LET text  == StrLower(content)
        runs  == Runs({i \in 1..Len(text) : IsWordChar(Char(text, i))}, Len(text))
        words == [k \in 1..Len(runs) |-> SubSeq(text, runs[k][1], runs[k][2])]
    IN  SelectSeq(words, LAMBDA w : Len(w) >= MinTokenLen /\ AllLetters(w))

stop_words == {"that", "with", "this", "have", "from", "they", "what", "when", "your",
               "will", "which", "their", "there", "about"}

immigration_terms == <<"visa", "immigration", "application", "requirements", "uk", "home",
                       "office", "leave", "remain", "citizenship", "spouse", "family",
                       "work", "student">>

DefaultKeyword == "immigration"

FreqKeys(freq) == {freq[i][1] : i \in 1..Len(freq)}

\* word_freq[word] = word_freq.get(word, 0) + 1, the dict keeping insertion order
BumpFreq(freq, word) ==
    IF word \in FreqKeys(freq)
    THEN [i \in 1..Len(freq) |-> IF freq[i][1] = word THEN <<word, freq[i][2] + 1>> ELSE freq[i]]
    ELSE Append(freq, <<word, 1>>)

RECURSIVE CountWords(_, _)
CountWords(words, freq) ==
    IF words = <<>> THEN freq
    ELSE CountWords(Tail(words),
                    IF Head(words) \notin stop_words /\ Len(Head(words)) > 3
                    THEN BumpFreq(freq, Head(words)) ELSE freq)

WordFreq(content) == CountWords(FindWords(content), <<>>)

\* where a stable descending sort puts item after the items already placed
InsertByFreq(sorted, item) ==
    LET k == Cardinality({i \in 1..Len(sorted) : sorted[i][2] >= item[2]})
    IN  SubSeq(sorted, 1, k) \o <<item>> \o SubSeq(sorted, k + 1, Len(sorted))

RECURSIVE SortFrom(_, _)
SortFrom(items, sorted) ==
    IF items = <<>> THEN sorted ELSE SortFrom(Tail(items), InsertByFreq(sorted, Head(items)))

\* sorted(word_freq.items(), key=lambda x: x[1], reverse=True): stable, so ties
\* stay in first-occurrence order
SortedWords(freq) == SortFrom(freq, <<>>)

\* ProvisionalKeyword without the "immigration" fallback
ProvisionalKeywordNoDefault(sorted_words) ==
    IF sorted_words # <<>> THEN sorted_words[1][1] ELSE ""

ProvisionalKeyword(sorted_words) ==
    IF sorted_words # <<>> THEN sorted_words[1][1] ELSE DefaultKeyword

\* the loop over immigration_terms: the first term, in list order, that is counted
\* and differs from the keyword chosen so far replaces it
OverrideKeyword(freq, main_keyword) ==
    LET hits == {i \in 1..Len(immigration_terms) :
                    immigration_terms[i] \in FreqKeys(freq) /\ immigration_terms[i] # main_keyword}
    IN  IF hits = {} THEN main_keyword
        ELSE immigration_terms[CHOOSE i \in hits : \A j \in hits : i <= j]

MainKeyword(content) ==
    OverrideKeyword(WordFreq(content), ProvisionalKeyword(SortedWords(WordFreq(content))))

WordsOf(pairs) == [i \in 1..Len(pairs) |-> pairs[i][1]]

\* [word for word, freq in sorted_words[1:11] if word != main_keyword]
SecondaryKeywords(sorted_words, main_keyword) ==
    SelectSeq(WordsOf(Slice(sorted_words, 1, 11)), LAMBDA w : w # main_keyword)

WordCount(content) == Len(StrSplitWhitespace(content))

QualityThreshold == 800

\* ContentQuality with the threshold itself counted as high
ContentQualityFromThreshold(content) ==
    IF WordCount(content) >= QualityThreshold THEN "high" ELSE "medium"

ContentQuality(content) == IF WordCount(content) > QualityThreshold THEN "high" ELSE "medium"

analyze_competitor_content(content) ==
    LET sorted_words == SortedWords(WordFreq(content))
        main_keyword == MainKeyword(content)
    IN  [main_keyword       |-> StrTitle(main_keyword),
         secondary_keywords |-> SecondaryKeywords(sorted_words, main_keyword),
         word_count         |-> WordCount(content),
         top_terms          |-> Slice(sorted_words, 0, 20),
         content_quality    |-> ContentQuality(content)]

(***************************************************************************)
(* fetch_sitemap and generate_anchor_text                                   *)
(***************************************************************************)
anchor_map == <<
    <<"Home", "immigration solicitors in Manchester">>,
    <<"Uk Visas Immigration Services", "UK visas and immigration services">>,
    <<"Indefinite Leave To Remain", "indefinite leave to remain">>,
    <<"British Citizenship", "British citizenship application">>,
    <<"Spouse Visa", "spouse visa requirements">>,
    <<"Family Visa", "family visa application">>,
    <<"Skilled Worker Visa", "Skilled Worker visa">>,
    <<"Student Visa", "student visa requirements">>,
    <<"Visit Visa", "visit visa application">> >>

\* anchor_map.get(page_title, page_title.lower())
generate_anchor_text(page_title) ==
    IF \E i \in 1..Len(anchor_map) : anchor_map[i][1] = page_title
    THEN anchor_map[CHOOSE i \in 1..Len(anchor_map) : anchor_map[i][1] = page_title][2]
    ELSE StrLower(page_title)

\* loc.split('/')[-2]
PathSegment(loc) == StrSplit(loc, "/")[Len(StrSplit(loc, "/")) - 1]

PageName(loc) ==
    IF PathSegment(loc) # "" THEN StrTitle(StrReplaceChar(PathSegment(loc), "-", " ")) ELSE "Home"

PageOf(loc) ==
    [url |-> loc, title |-> PageName(loc), anchor_text |-> generate_anchor_text(PageName(loc))]

\* pages[:15]
SitemapCap == 15

\* fetch_sitemap whose except branch returns the pages parsed before the failure
fetch_sitemap_partial(response) ==
    IF \E i \in 1..Len(response.locs) : Len(StrSplit(response.locs[i], "/")) < 2
    THEN <<>>
    ELSE Slice([i \in 1..Len(response.locs) |-> PageOf(response.locs[i])], 0, 15)

\* A response of the sitemap server is [failed, locs]: failed stands for every
\* exception of the try block (connection error, HTTP error status, malformed
\* XML, a url element without loc), locs are the <loc> texts in document order.
\* A loc with no '/' makes split('/')[-2] raise IndexError inside the same try.
fetch_sitemap(response) ==
    IF response.failed \/ \E i \in 1..Len(response.locs) : Len(StrSplit(response.locs[i], "/")) < 2
    THEN <<>>
    ELSE Slice([i \in 1..Len(response.locs) |-> PageOf(response.locs[i])], 0, SitemapCap)

\* st.error(f"Error fetching sitemap: {e}") of the except branch
FetchAlerts(response) ==
    IF response.failed \/ \E i \in 1..Len(response.locs) : Len(StrSplit(response.locs[i], "/")) < 2
    THEN <<"Error fetching sitemap">> ELSE <<>>

(***************************************************************************)
(* generate_content_brief                                                   *)
(***************************************************************************)
mandatory_links == <<
    <<"Immigration solicitors in Manchester", "https://solicitorsinmanchester.co.uk/">>,
    <<"Home Office", "https://www.gov.uk/government/organisations/home-office">>,
    <<"UKVI", "https://www.gov.uk/government/organisations/uk-visas-and-immigration">>,
    <<"ILR", "https://solicitorsinmanchester.co.uk/indefinite-leave-to-remain/">>,
    <<"Life in the UK test", "https://en.wikipedia.org/wiki/Life_in_the_United_Kingdom_test">>,
    <<"NHS", "https://www.nhs.uk/">>,
    <<"UK Visas & Immigration Services",
      "https://solicitorsinmanchester.co.uk/uk-visas-immigration-services/">> >>

HeadingStructure(main_keyword) ==
    [H1  |-> "Complete Guide to " \o main_keyword \o " in the UK 2025",
     H2s |-> <<"What Is " \o main_keyword \o "?",
               "Who Needs " \o main_keyword \o "?",
               "How Does " \o main_keyword \o " Work?",
               "Eligibility Requirements for " \o main_keyword,
               "Application Process Step by Step",
               "Common Mistakes to Avoid",
               "Costs and Processing Times 2025",
               main_keyword \o " vs Alternative Options",
               "Real-Life Case Studies and Examples",
               "Frequently Asked Questions">>]

SnippetOpportunities(main_keyword) ==
    <<"What is " \o StrLower(main_keyword) \o "?",
      "How long does " \o StrLower(main_keyword) \o " take?",
      "How much does " \o StrLower(main_keyword) \o " cost?",
      "Who is eligible for " \o StrLower(main_keyword) \o "?",
      "What documents are needed for " \o StrLower(main_keyword) \o "?">>

PaaQuestions(main_keyword) ==
    <<"What are the requirements for " \o StrLower(main_keyword) \o "?",
      "How do I apply for " \o StrLower(main_keyword) \o "?",
      "What is the success rate for " \o StrLower(main_keyword) \o "?",
      "Can I work with " \o StrLower(main_keyword) \o "?",
      "Can my family join me with " \o StrLower(main_keyword) \o "?",
      "What happens if my " \o StrLower(main_keyword) \o " is refused?",
      "How long can I stay with " \o StrLower(main_keyword) \o "?",
      "Can I extend my " \o StrLower(main_keyword) \o "?">>

\* SemanticKeywords with the main keyword as analyze returned it, .lower() forgotten
SemanticKeywordsTitleCase(analysis) ==
    <<analysis.main_keyword, "UK visa", "immigration", "application", "requirements",
      "documents", "processing time", "cost", "fee", "eligibility", "criteria",
      "guidance", "advice", "solicitor", "legal", "home office", "UKVI", "decision",
      "approval", "refusal", "appeal", "extension", "switch", "change", "status">>
    \o analysis.secondary_keywords

SemanticKeywords(analysis) ==
    <<StrLower(analysis.main_keyword), "UK visa", "immigration", "application", "requirements",
      "documents", "processing time", "cost", "fee", "eligibility", "criteria",
      "guidance", "advice", "solicitor", "legal", "home office", "UKVI", "decision",
      "approval", "refusal", "appeal", "extension", "switch", "change", "status">>
    \o analysis.secondary_keywords

\* sitemap_pages[:12]
LinkCap == 12

\* PageLinks over every page, the [:12] slice forgotten
PageLinksUncapped(sitemap_pages) ==
    [i \in 1..Len(sitemap_pages) |->
        [anchor_text |-> sitemap_pages[i].anchor_text,
         url         |-> sitemap_pages[i].url,
         placement   |-> "Natural context in relevant sections about " \o sitemap_pages[i].title]]

PageLinks(sitemap_pages) ==
    [i \in 1..Len(Slice(sitemap_pages, 0, LinkCap)) |->
        [anchor_text |-> sitemap_pages[i].anchor_text,
         url         |-> sitemap_pages[i].url,
         placement   |-> "Natural context in relevant sections about " \o sitemap_pages[i].title]]

MandatoryLinks ==
    [i \in 1..Len(mandatory_links) |->
        [anchor_text |-> mandatory_links[i][1],
         url         |-> mandatory_links[i][2],
         placement   |-> "Contextual placement in relevant content sections"]]

InternalLinks(sitemap_pages) == PageLinks(sitemap_pages) \o MandatoryLinks

generate_content_brief(analysis, sitemap_pages) ==
    [heading_structure     |-> HeadingStructure(analysis.main_keyword),
     snippet_opportunities |-> SnippetOpportunities(analysis.main_keyword),
     paa_questions         |-> PaaQuestions(analysis.main_keyword),
     semantic_keywords     |-> SemanticKeywords(analysis),
     internal_links        |-> InternalLinks(sitemap_pages),
     content_gaps          |-> <<"Lack of real-life case studies",
                                 "Missing current 2025 processing times",
                                 "Inadequate cost breakdown",
                                 "Limited information on refusal handling",
                                 "Not enough practical examples">>,
     user_intent           |-> "Mixed - informational (understanding requirements) and transactional (seeking legal help)"]

(***************************************************************************)
(* generate_full_article.  The article is the list article_parts; a part is *)
(* [part, text, generator, draw]: text is a heading the part prints,        *)
(* generator the template family that wrote a body, draw the value the      *)
(* random module returned for it (0 when the generator draws nothing).      *)
(***************************************************************************)
\* random.randint(1000, 3000)
CostMin == 1000

CostMax == 3000

\* random.randint(3, 12)
WeeksMin == 3

WeeksMax == 12

\* the FAQ slice one question short
FaqCapShort == 8 - 1

\* brief['paa_questions'][:8]
FaqCap == 8

\* random.choice over a list of n templates: the index drawn
RandomChoice(n) == 1..n

\* random.randint(lo, hi), sampled at both ends of the range
RandomInt(lo, hi) == {lo, hi}

Part(part, text, generator, draw) ==
    [part |-> part, text |-> text, generator |-> generator, draw |-> draw]

\* the if/elif chain over the H2 text: the first marker found decides
SectionGenerator(h2) ==
    IF Contains("What Is", h2) THEN "what_is"
    ELSE IF Contains("Who Needs", h2) THEN "who_needs"
    ELSE IF Contains("How Does", h2) THEN "how_works"
    ELSE IF Contains("Eligibility", h2) THEN "eligibility"
    ELSE IF Contains("Application Process", h2) THEN "application"
    ELSE IF Contains("Common Mistakes", h2) THEN "mistakes"
    ELSE IF Contains("Costs", h2) THEN "costs"
    ELSE IF Contains("vs", h2) THEN "comparison"
    ELSE IF Contains("Case Studies", h2) THEN "case_studies"
    ELSE "generic"

\* what each _generate_*_section asks of the random module
SectionDraws(generator) ==
    CASE generator = "what_is"      -> RandomChoice(2)
      [] generator = "who_needs"    -> RandomChoice(4)
      [] generator = "costs"        -> RandomInt(CostMin, CostMax)
      [] generator = "case_studies" -> RandomChoice(2)
      [] OTHER                      -> {0}

\* FaqTemplate with the document test moved before the cost test
FaqTemplateDocumentFirst(question) ==
    LET q == StrLower(question)
    IN  IF Contains("requirement", q) THEN "requirements"
        ELSE IF Contains("how long", q) \/ Contains("time", q) THEN "processing_time"
        ELSE IF Contains("document", q) THEN "documents"
        ELSE IF Contains("cost", q) \/ Contains("how much", q) THEN "cost"
        ELSE "generic"

\* the if/elif chain over question.lower()
FaqTemplate(question) ==
    LET q == StrLower(question)
    IN  IF Contains("requirement", q) THEN "requirements"
        ELSE IF Contains("how long", q) \/ Contains("time", q) THEN "processing_time"
        ELSE IF Contains("cost", q) \/ Contains("how much", q) THEN "cost"
        ELSE IF Contains("document", q) THEN "documents"
        ELSE "generic"

FaqDraws(template) == IF template = "processing_time" THEN RandomInt(WeeksMin, WeeksMax) ELSE {0}

RECURSIVE Product(_)
\* the sequences that take their i-th element from sets[i]
Product(sets) ==
    IF sets = <<>> THEN {<<>>}
    ELSE {<<x>> \o rest : x \in Head(sets), rest \in Product(Tail(sets))}

RECURSIVE Flatten(_)
Flatten(seqs) == IF seqs = <<>> THEN <<>> ELSE Head(seqs) \o Flatten(Tail(seqs))

\* the generator each H2 of the brief is routed to, in heading order
SectionRouting(brief) ==
    [i \in 1..Len(brief.heading_structure.H2s) |-> SectionGenerator(brief.heading_structure.H2s[i])]

\* the answer template of each of the first FaqCap questions, in question order
FaqRouting(brief) ==
    [i \in 1..Len(Slice(brief.paa_questions, 0, FaqCap)) |-> FaqTemplate(brief.paa_questions[i])]

\* every outcome of the draws one article makes, given where its parts are routed
DrawOutcomes(generators, templates) ==
    [intro    : RandomChoice(3),
     sections : Product([i \in 1..Len(generators) |-> SectionDraws(generators[i])]),
     weeks    : Product([i \in 1..Len(templates) |-> FaqDraws(templates[i])])]

RandomSources(brief) == DrawOutcomes(SectionRouting(brief), FaqRouting(brief))

\* article_parts, with the routing of the loops already decided
ArticleParts(brief, analysis, generators, templates, rnd) ==
    <<Part("h1", brief.heading_structure.H1, "", 0),
      Part("introduction", "", "introduction", rnd.intro)>>
    \o Flatten([i \in 1..Len(generators) |->
                   <<Part("h2", brief.heading_structure.H2s[i], "", 0),
                     Part("section", "", generators[i], rnd.sections[i])>>])
    \o <<Part("faq_heading", "Frequently Asked Questions", "", 0)>>
    \o Flatten([i \in 1..Len(templates) |->
                   <<Part("question", brief.paa_questions[i], "", 0),
                     Part("answer", "", templates[i], rnd.weeks[i])>>])
    \o <<Part("cta", "Get Professional Help with Your " \o analysis.main_keyword \o " Application",
              "cta", 0),
         Part("conclusion", "Conclusion", "conclusion", 0)>>

generate_full_article(brief, analysis, rnd) ==
    ArticleParts(brief, analysis, SectionRouting(brief), FaqRouting(brief), rnd)

\* the articles generate_full_article can return for one brief
GeneratedArticles(brief, analysis) ==
    LET generators == SectionRouting(brief)
        templates  == FaqRouting(brief)
    IN  {ArticleParts(brief, analysis, generators, templates, rnd)
            : rnd \in DrawOutcomes(generators, templates)}

(***************************************************************************)
(* generate_seo_metadata                                                    *)
(***************************************************************************)
generate_seo_metadata(brief, analysis) ==
    LET main_keyword == analysis.main_keyword
        topic_lower  == StrLower(analysis.main_keyword)
    IN  [main_keyword       |-> main_keyword,
         secondary_keywords |-> Slice(analysis.secondary_keywords, 0, 8),
         meta_titles        |-> <<main_keyword \o " UK Requirements 2025 | Manchester Solicitors",
                                  "Complete Guide to " \o main_keyword \o " 2025 | Legal Advice Manchester",
                                  main_keyword \o " Application Process & Costs 2025">>,
         meta_descriptions  |-> <<"Get expert help with your " \o topic_lower \o " application. Learn about requirements, costs and processing times 2025. Contact our Manchester solicitors today.",
                                  "Complete 2025 guide to " \o topic_lower \o " in the UK. Understand eligibility, application process and avoid common mistakes with our legal support.",
                                  "Need help with " \o topic_lower \o "? Our Manchester immigration solicitors provide clear guidance and professional support for your application.">>,
         slug_url           |-> "/" \o StrReplaceChar(topic_lower, " ", "-") \o "-guide-2025/",
         schema_recommendations |-> <<"Article Schema", "FAQ Schema", "LocalBusiness Schema",
                                      "Breadcrumb Schema">>]

(***************************************************************************)
(* The Streamlit session.  One script run is main(): it fills in the        *)
(* missing keys of st.session_state and shows the current step.  A run      *)
(* yields [ss, rerun, alerts, raised, composed]: the session state it       *)
(* leaves, whether it ended in st.rerun(), the st.error messages it showed, *)
(* whether an exception ended it (st.session_state.<key> of a missing key   *)
(* raises), and whether it called generate_full_article.                    *)
(* The functions return the set of possible results, one per outcome of     *)
(* the random draws.                                                        *)
(***************************************************************************)
Has(ss, key) == key \in DOMAIN ss

Put(ss, key, value) == [k \in DOMAIN ss \cup {key} |-> IF k = key THEN value ELSE ss[k]]

SetDefault(ss, key, value) == IF Has(ss, key) THEN ss ELSE Put(ss, key, value)

\* a session with no key: a new browser session, or the session after the reset loop
NoKeys == <<>>

Result(ss, rerun, alerts, raised) ==
    [ss |-> ss, rerun |-> rerun, alerts |-> alerts, raised |-> raised, composed |-> FALSE]

\* the result of a run that called generate_full_article and drew from random
Composing(r) == [r EXCEPT !.composed = TRUE]

NoWidget == [button |-> "none", competitor_content |-> ""]

NoResponse == [failed |-> FALSE, locs |-> <<>>]

\* if 'current_step' not in st.session_state: ... (and the two flags)
InitSessionState(ss) ==
    SetDefault(SetDefault(SetDefault(ss, "current_step", 1), "article_generated", FALSE),
               "analysis_complete", FALSE)

\* show_step_1 that moves to step 3 instead of step 2
show_step_1_skips(ss, widget, response) ==
    IF widget.button = "analyze" /\ widget.competitor_content # ""
    THEN LET analysis == analyze_competitor_content(widget.competitor_content)
             brief    == generate_content_brief(analysis, fetch_sitemap(response))
         IN  {Result(Put(Put(Put(Put(ss, "analysis", analysis), "brief", brief),
                             "analysis_complete", TRUE), "current_step", 3),
                     TRUE, FetchAlerts(response), FALSE)}
    ELSE {Result(ss, FALSE, <<>>, FALSE)}

\* show_step_1 without the test of competitor_content
show_step_1_accepts(ss, widget, response) ==
    IF widget.button = "analyze"
    THEN LET analysis == analyze_competitor_content(widget.competitor_content)
             brief    == generate_content_brief(analysis, fetch_sitemap(response))
         IN  {Result(Put(Put(Put(Put(ss, "analysis", analysis), "brief", brief),
                             "analysis_complete", TRUE), "current_step", 2),
                     TRUE, FetchAlerts(response), FALSE)}
    ELSE {Result(ss, FALSE, <<>>, FALSE)}

show_step_1(ss, widget, response) ==
    IF widget.button = "analyze"
    THEN IF widget.competitor_content # ""
         THEN LET sitemap_pages == fetch_sitemap(response)
                  analysis      == analyze_competitor_content(widget.competitor_content)
                  brief         == generate_content_brief(analysis, sitemap_pages)
              IN  {Result(Put(Put(Put(Put(ss, "analysis", analysis), "brief", brief),
                                  "analysis_complete", TRUE), "current_step", 2),
                          TRUE, FetchAlerts(response), FALSE)}
         ELSE {Result(ss, FALSE, <<"Please paste competitor content to proceed.">>, FALSE)}
    ELSE {Result(ss, FALSE, <<>>, FALSE)}

\* the rest of show_step_2 once the article is in place: display, word count, button
Step2Display(ss, widget) ==
    IF ~Has(ss, "article") THEN Result(ss, FALSE, <<>>, TRUE)
    ELSE IF widget.button = "metadata" THEN Result(Put(ss, "current_step", 3), TRUE, <<>>, FALSE)
    ELSE Result(ss, FALSE, <<>>, FALSE)

\* show_step_2 that writes the article on every run, article_generated ignored
show_step_2_recomposes(ss, widget) ==
    IF ~ss.analysis_complete
    THEN {Result(Put(ss, "current_step", 1), TRUE, <<"Please complete Step 1 first.">>, FALSE)}
    ELSE IF ~(Has(ss, "brief") /\ Has(ss, "analysis")) THEN {Result(ss, FALSE, <<>>, TRUE)}
    ELSE {Composing(Step2Display(Put(Put(ss, "article", article), "article_generated", TRUE),
                                 widget))
            : article \in GeneratedArticles(ss.brief, ss.analysis)}

show_step_2(ss, widget) ==
    IF ~ss.analysis_complete
    THEN {Result(Put(ss, "current_step", 1), TRUE, <<"Please complete Step 1 first.">>, FALSE)}
    ELSE IF ss.article_generated THEN {Step2Display(ss, widget)}
    ELSE IF ~(Has(ss, "brief") /\ Has(ss, "analysis")) THEN {Result(ss, FALSE, <<>>, TRUE)}
    ELSE {Composing(Step2Display(Put(Put(ss, "article", article), "article_generated", TRUE),
                                 widget))
            : article \in GeneratedArticles(ss.brief, ss.analysis)}

\* show_step_3 whose reset only sets the step back and keeps the other keys
show_step_3_keeps(ss, widget) ==
    IF ~(Has(ss, "brief") /\ Has(ss, "analysis") /\ Has(ss, "article"))
    THEN {Result(ss, FALSE, <<>>, TRUE)}
    ELSE IF widget.button = "reset" THEN {Result(Put(ss, "current_step", 1), TRUE, <<>>, FALSE)}
    ELSE {Result(ss, FALSE, <<>>, FALSE)}

show_step_3(ss, widget) ==
    IF ~(Has(ss, "brief") /\ Has(ss, "analysis") /\ Has(ss, "article"))
    THEN {Result(ss, FALSE, <<>>, TRUE)}
    ELSE IF widget.button = "reset" THEN {Result(NoKeys, TRUE, <<>>, FALSE)}
    ELSE {Result(ss, FALSE, <<>>, FALSE)}

main(ss, widget, response) ==
    LET s0 == InitSessionState(ss)
    IN  CASE s0.current_step = 1 -> show_step_1(s0, widget, response)
          [] s0.current_step = 2 -> show_step_2(s0, widget)
          [] s0.current_step = 3 -> show_step_3(s0, widget)
          [] OTHER               -> {Result(s0, FALSE, <<>>, FALSE)}

RECURSIVE RunScript(_, _, _)
\* a script run and the runs st.rerun() starts after it, in which no button is pressed
RunScript(ss, widget, response) ==
    UNION { IF r.rerun
            THEN {[ss |-> next.ss, rerun |-> FALSE, alerts |-> r.alerts \o next.alerts,
                   raised |-> next.raised, composed |-> r.composed \/ next.composed]
                    : next \in RunScript(r.ss, NoWidget, response)}
            ELSE {r}
          : r \in main(ss, widget, response) }

(***************************************************************************)
(* Inputs of the session.                                                   *)
(***************************************************************************)
E2EText == "visa visa visa application application requirements"

SpouseVisaLoc == "https://solicitorsinmanchester.co.uk/spouse-visa/"

SiteLocs == <<SpouseVisaLoc,
              "https://solicitorsinmanchester.co.uk/indefinite-leave-to-remain/",
              "https://solicitorsinmanchester.co.uk/",
              "https://solicitorsinmanchester.co.uk/family-visa/">>

SessionTexts == {E2EText, "", "that uk", "costs and fees"}

SessionResponses ==
    {[failed |-> TRUE,  locs |-> <<>>],
     [failed |-> FALSE, locs |-> <<>>],
     [failed |-> TRUE,  locs |-> <<SpouseVisaLoc>>],
     [failed |-> FALSE, locs |-> <<SpouseVisaLoc>>]}

(***************************************************************************)
(* Spec: one browser session.  session_state is st.session_state; input is  *)
(* the widget event of the latest script run with the text and the sitemap  *)
(* response of the latest analysis; output is what that run showed.         *)
(***************************************************************************)
Rendered(step) ==
    /\ Has(session_state, "current_step")
    /\ session_state.current_step = step
    /\ ~output.raised

Run(event, widget, response, content) ==
    \E r \in RunScript(session_state, widget, response) :
        /\ session_state' = r.ss
        /\ input' = [event |-> event, competitor_content |-> content, response |-> response]
        /\ output' = [alerts |-> r.alerts, raised |-> r.raised, composed |-> r.composed]

Init ==
    /\ session_state = NoKeys
    /\ input = [event |-> "none", competitor_content |-> "", response |-> NoResponse]
    /\ output = [alerts |-> <<>>, raised |-> FALSE, composed |-> FALSE]

\* the page is loaded, or re-run by a widget that changes nothing
Render == Run("render", NoWidget, input.response, input.competitor_content)

ClickAnalyze ==
    /\ Rendered(1)
    /\ \E text \in SessionTexts, response \in SessionResponses :
          Run("analyze", [button |-> "analyze", competitor_content |-> text], response, text)

ClickMetadata ==
    /\ Rendered(2)
    /\ Run("metadata", [button |-> "metadata", competitor_content |-> ""],
           input.response, input.competitor_content)

ClickDownload ==
    /\ Rendered(3)
    /\ Run("download", [button |-> "download", competitor_content |-> ""],
           input.response, input.competitor_content)

ClickReset ==
    /\ Rendered(3)
    /\ Run("reset", [button |-> "reset", competitor_content |-> ""], NoResponse, "")

Next == Render \/ ClickAnalyze \/ ClickMetadata \/ ClickDownload \/ ClickReset

Spec == Init /\ [][Next]_vars

(***************************************************************************)
(* SpecCore: the pipeline functions applied to bounded inputs.  input is    *)
(* the call and its arguments, output what it returned.                     *)
(***************************************************************************)
Vocabulary == <<"visa", "application", "requirements", "costs", "Guide", "that", "uk">>

RECURSIVE JoinWords(_)
JoinWords(words) ==
    IF words = <<>> THEN ""
    ELSE IF Len(words) = 1 THEN Head(words)
    ELSE Head(words) \o " " \o JoinWords(Tail(words))

WordsFrom(pool, n) == {[i \in 1..n |-> pool[f[i]]] : f \in [1..n -> 1..Len(pool)]}

RECURSIVE Repeat(_, _)
\* s written n times
Repeat(s, n) ==
    IF n = 0 THEN ""
    ELSE IF n = 1 THEN s
    ELSE Repeat(s, n \div 2) \o Repeat(s, n - n \div 2)

\* texts of 800 and of 801 words, on either side of the quality threshold; the
\* longer ones hold counted words
LongTexts ==
    {Repeat("uk ", QualityThreshold), Repeat("uk ", QualityThreshold + 1),
     Repeat("a\n", QualityThreshold - 1) \o "visa", Repeat(" a", QualityThreshold) \o " guide"}

ExtraTexts ==
    {E2EText,
     "visa1 well-known, guide. GUIDE_x abcd",
     "a\tb\n c  ",
     "alpha bravo charlie delta echoo foxtrot golf hotel india juliet kilo lima mike visa"}

Texts ==
    {JoinWords(ws) : ws \in UNION {WordsFrom(Vocabulary, n) : n \in 0..MaxWords}}
    \cup ExtraTexts \cup LongTexts

\* the page list of a sitemap of n pages that starts at the k-th known location
PageList(n, k) == [i \in 1..n |-> PageOf(SiteLocs[((i + k) % Len(SiteLocs)) + 1])]

PageLists == {PageList(n, k) : n \in 0..MaxPages, k \in 1..Len(SiteLocs)}

BriefTexts == {E2EText, "", "costs and fees"}

Markers == <<"requirements", "How long", "time", "Cost", "how much", "Documents", "visa">>

Questions ==
    {"Can I " \o JoinWords(ws) \o "?" : ws \in UNION {WordsFrom(Markers, n) : n \in 1..2}}

CoreCalls ==
    {[call |-> "analyze", content |-> t] : t \in Texts}
    \cup {[call |-> "brief", analysis |-> analyze_competitor_content(t), sitemap_pages |-> pages]
            : t \in BriefTexts, pages \in PageLists}
    \cup {[call |-> "faq", question |-> q] : q \in Questions}

InitCore ==
    /\ session_state = NoKeys
    /\ input \in CoreCalls
    /\ output = [returned |-> FALSE]

Return(value) ==
    /\ ~output.returned
    /\ output' = [returned |-> TRUE, value |-> value]
    /\ UNCHANGED <<session_state, input>>

CallAnalyze == input.call = "analyze" /\ Return(analyze_competitor_content(input.content))

CallBrief ==
    input.call = "brief" /\ Return(generate_content_brief(input.analysis, input.sitemap_pages))

CallFaq == input.call = "faq" /\ Return(FaqTemplate(input.question))

NextCore == CallAnalyze \/ CallBrief \/ CallFaq

SpecCore == InitCore /\ [][NextCore]_vars

Returned(call) == input.call = call /\ output.returned

(***************************************************************************)
(* SpecGuard: a step is entered with any stored artifacts.  The flags agree *)
(* with the artifacts, as show_step_1 and show_step_2 set them together;    *)
(* current_step is arbitrary.                                               *)
(***************************************************************************)
GuardTexts == {E2EText, "costs and fees"}

AnalysedSessions ==
    {Put(Put(Put(InitSessionState(NoKeys), "analysis", analyze_competitor_content(t)),
             "brief", generate_content_brief(analyze_competitor_content(t), fetch_sitemap(r))),
         "analysis_complete", TRUE)
        : t \in GuardTexts, r \in SessionResponses}

WrittenSessions ==
    UNION {{Put(Put(ss, "article", article), "article_generated", TRUE)
              : article \in GeneratedArticles(ss.brief, ss.analysis)}
            : ss \in AnalysedSessions}

GuardSessions ==
    {Put(ss, "current_step", step)
        : ss \in {InitSessionState(NoKeys)} \cup AnalysedSessions \cup WrittenSessions,
          step \in 1..3}

InitGuard ==
    /\ session_state \in GuardSessions
    /\ input = [event |-> "none", before |-> NoKeys]
    /\ output = [alerts |-> <<>>, raised |-> FALSE, composed |-> FALSE]

\* the script runs with no button pressed
EnterStep ==
    /\ input.event = "none"
    /\ \E r \in RunScript(session_state, NoWidget, NoResponse) :
          /\ session_state' = r.ss
          /\ input' = [event |-> "enter", before |-> session_state]
          /\ output' = [alerts |-> r.alerts, raised |-> r.raised, composed |-> r.composed]

NextGuard == EnterStep

SpecGuard == InitGuard /\ [][NextGuard]_vars

(***************************************************************************)
(* The claims.                                                              *)
(***************************************************************************)
StageOf(ss) == InitSessionState(ss).current_step

Stored(key) == Has(session_state, key)

Count(seq, Test(_)) == Cardinality({i \in 1..Len(seq) : Test(seq[i])})

\* the shape of an article for a brief: title and introduction, one heading and
\* one body per H2 in brief order, one FAQ heading, one question and one answer
\* per PAA question in question order, one call to action, one conclusion
ArticleShape(article, brief) ==
    LET H2s == brief.heading_structure.H2s
        paa == brief.paa_questions
        faq == 2 + 2 * Len(H2s) + 1
    IN  /\ Len(article) = faq + 2 * Len(paa) + 2
        /\ \A i \in 1..Len(H2s) :
              /\ article[2 * i + 1].part = "h2" /\ article[2 * i + 1].text = H2s[i]
              /\ article[2 * i + 2].part = "section"
        /\ article[faq].part = "faq_heading"
        /\ \A j \in 1..Len(paa) :
              /\ article[faq + 2 * j - 1].part = "question"
              /\ article[faq + 2 * j - 1].text = paa[j]
              /\ article[faq + 2 * j].part = "answer"
        /\ article[Len(article) - 1].part = "cta"
        /\ article[Len(article)].part = "conclusion"
        /\ Count(article, LAMBDA x : x.part = "section") = Len(H2s)
        /\ Count(article, LAMBDA x : x.part = "answer") = Len(paa)
        /\ Count(article, LAMBDA x : x.part = "faq_heading") = 1
        /\ Count(article, LAMBDA x : x.part = "cta") = 1
        /\ Count(article, LAMBDA x : x.part = "conclusion") = 1

E2EResponse == [failed |-> FALSE, locs |-> <<SpouseVisaLoc>>]

\* C1: the session that analysed "visa visa visa application application
\* requirements" with the one page .../spouse-visa/ and reached the metadata step
\* holds main_keyword "Visa", an H1 containing "Visa", an article of 10 H2
\* sections plus FAQ, call to action and conclusion, and yields the slug
\* /visa-guide-2025/.
C1_EndToEnd ==
    (Rendered(3) /\ input.competitor_content = E2EText /\ input.response = E2EResponse)
    => /\ session_state.analysis.main_keyword = "Visa"
       /\ Contains("Visa", session_state.brief.heading_structure.H1)
       /\ Len(session_state.brief.heading_structure.H2s) = 10
       /\ ArticleShape(session_state.article, session_state.brief)
       /\ generate_seo_metadata(session_state.brief, session_state.analysis).slug_url
             = "/visa-guide-2025/"

AllowListed(word) == \E i \in 1..Len(immigration_terms) : immigration_terms[i] = word

\* the counted words in frequency-ranked order: descending frequency, ties in
\* first-occurrence order
Ranked(content) == WordsOf(SortedWords(WordFreq(content)))

FirstRankedTerm(content) ==
    Ranked(content)[CHOOSE i \in 1..Len(Ranked(content)) :
                       /\ AllowListed(Ranked(content)[i])
                       /\ \A j \in 1..(i - 1) : ~AllowListed(Ranked(content)[j])]

\* C2: when the frequency table of the text holds an allow-list term, analyze
\* returns as main_keyword the title-cased allow-list term that comes first in
\* frequency-ranked order.
C2_FirstRankedTerm ==
    (Returned("analyze") /\ \E i \in 1..Len(Ranked(input.content)) : AllowListed(Ranked(input.content)[i]))
    => output.value.main_keyword = StrTitle(FirstRankedTerm(input.content))

\* C3: analyze never returns an empty main_keyword; a text with no candidate
\* token gets the keyword "Immigration" and no secondary keywords; the empty
\* text has word_count 0.
C3_DefaultKeyword ==
    Returned("analyze")
    => /\ output.value.main_keyword # ""
       /\ Ranked(input.content) = <<>>
             => /\ output.value.main_keyword = "Immigration"
                /\ output.value.secondary_keywords = <<>>
       /\ input.content = "" => output.value.word_count = 0

C3_Witness ==
    /\ Returned("analyze")
    /\ input.content = "that uk that"
    /\ output.value.main_keyword = "Immigration"

\* C4: every stored article has one section per H2 of the stored brief in brief
\* order, then one FAQ section with one answer per PAA question in question
\* order, then one call to action and one conclusion, whatever was drawn.
C4_ArticleShape ==
    Stored("article") => ArticleShape(session_state.article, session_state.brief)

C4_Witness ==
    /\ Stored("article")
    /\ input.event = "analyze"
    /\ \E i \in 1..Len(session_state.article) :
          session_state.article[i].generator = "costs" /\ session_state.article[i].draw = CostMax
    /\ \E i \in 1..Len(session_state.article) :
          session_state.article[i].generator = "processing_time"
             /\ session_state.article[i].draw = WeeksMin

Marked(question, marker) == Contains(marker, StrLower(question))

\* C5: the FAQ template of a question is decided by the first test that
\* matches, in the order requirement, (how long or time), (cost or how much),
\* document, generic; a question with "cost" and "document" and no earlier
\* marker gets the cost template.
C5_FaqOrder ==
    Returned("faq")
    => LET q    == input.question
           req  == Marked(q, "requirement")
           time == Marked(q, "how long") \/ Marked(q, "time")
           cost == Marked(q, "cost") \/ Marked(q, "how much")
           doc  == Marked(q, "document")
       IN  /\ req => output.value = "requirements"
           /\ (~req /\ time) => output.value = "processing_time"
           /\ (~req /\ ~time /\ cost) => output.value = "cost"
           /\ (~req /\ ~time /\ ~cost /\ doc) => output.value = "documents"
           /\ (~req /\ ~time /\ ~cost /\ ~doc) => output.value = "generic"

C5_Witness ==
    /\ Returned("faq")
    /\ Marked(input.question, "cost") /\ Marked(input.question, "document")
    /\ ~Marked(input.question, "requirement") /\ ~Marked(input.question, "time")
    /\ output.value = "cost"

\* C6: internal_links is the first min(12, len(pages)) pages as link entries in
\* input order followed by the 7 mandatory entries in table order; a page whose
\* url is a mandatory url is kept as an entry of its own.
C6_InternalLinks ==
    Returned("brief")
    => LET pages == input.sitemap_pages
           links == output.value.internal_links
           kept  == IF Len(pages) < 12 THEN Len(pages) ELSE 12
       IN  /\ Len(mandatory_links) = 7
           /\ Len(links) = kept + 7
           /\ \A i \in 1..kept :
                 links[i].url = pages[i].url /\ links[i].anchor_text = pages[i].anchor_text
           /\ \A j \in 1..7 :
                 /\ links[kept + j].anchor_text = mandatory_links[j][1]
                 /\ links[kept + j].url = mandatory_links[j][2]

C6_Witness ==
    /\ Returned("brief")
    /\ Len(input.sitemap_pages) > 12
    /\ \E i \in 1..12, j \in 13..19 :
          /\ output.value.internal_links[i].url = output.value.internal_links[j].url
          /\ output.value.internal_links[i].anchor_text # output.value.internal_links[j].anchor_text

C7_StageInvariant ==
    /\ StageOf(session_state) \in 1..3
    /\ StageOf(session_state) = 2 => Stored("analysis") /\ Stored("brief")
    /\ StageOf(session_state) = 3 => Stored("article")

C7_StageStep ==
    StageOf(session_state') # StageOf(session_state)
    => \/ /\ StageOf(session_state) = 1 /\ StageOf(session_state') = 2
          /\ Has(session_state', "analysis") /\ Has(session_state', "brief")
       \/ /\ StageOf(session_state) = 2 /\ StageOf(session_state') = 3
          /\ Has(session_state', "article")
       \/ input'.event = "reset" /\ StageOf(session_state') = 1

\* C7: apart from reset the step changes only from 1 to 2, with analysis and
\* brief stored, and from 2 to 3, with the article stored; step 2 always has
\* analysis and brief, step 3 always has the article.
C7_StageOrder == []C7_StageInvariant /\ [][C7_StageStep]_vars

C7_Witness == input.event = "metadata" /\ StageOf(session_state) = 3 /\ Stored("article")

\* C8: after "Start New Analysis" the session is at step 1 with no analysis,
\* brief or article and both flags false.
C8_ResetClears ==
    input.event = "reset"
    => /\ session_state.current_step = 1
       /\ ~Stored("analysis") /\ ~Stored("brief") /\ ~Stored("article")
       /\ ~session_state.analysis_complete /\ ~session_state.article_generated

C8_Witness == input.event = "reset" /\ ~output.raised /\ StageOf(session_state) = 1

ArtifactKeys(ss) == DOMAIN ss \cap {"analysis", "brief", "article"}

C10_EmptySitemap ==
    (/\ input.event = "analyze"
     /\ input.competitor_content # ""
     /\ input.response.failed \/ input.response.locs = <<>>)
    => /\ ~output.raised
       /\ \A i \in 1..Len(output.alerts) : output.alerts[i] = "Error fetching sitemap"
       /\ Stored("analysis") /\ Stored("brief")
       /\ session_state.current_step = 2
       /\ Len(session_state.brief.internal_links) = 7
       /\ \A j \in 1..7 :
             /\ session_state.brief.internal_links[j].anchor_text = mandatory_links[j][1]
             /\ session_state.brief.internal_links[j].url = mandatory_links[j][2]

C10_Witness ==
    /\ input.event = "analyze"
    /\ input.response.failed /\ input.response.locs # <<>>
    /\ output.alerts = <<"Error fetching sitemap">>
    /\ session_state.current_step = 2
    /\ Len(session_state.brief.internal_links) = 7

RejectedText == "Please paste competitor content to proceed."

\* C11 as stated: an empty competitor text submitted at step 1 is accepted: no
\* rejection is shown and nothing is raised, an analysis with the default
\* keyword and a brief are stored, and the session is at step 2.
C11_EmptyAccepted ==
    (input.event = "analyze" /\ input.competitor_content = "")
    => /\ ~output.raised
       /\ \A i \in 1..Len(output.alerts) : output.alerts[i] # RejectedText
       /\ Stored("analysis") /\ Stored("brief")
       /\ session_state.analysis.main_keyword = StrTitle(DefaultKeyword)
       /\ session_state.current_step = 2

\* C11 amended: an empty competitor text submitted at step 1 is rejected with
\* the message "Please paste competitor content to proceed."; nothing is raised,
\* no analysis, brief or article is stored and the session stays at step 1.
C11_EmptyRejected ==
    (input.event = "analyze" /\ input.competitor_content = "")
    => /\ ~output.raised
       /\ output.alerts = <<RejectedText>>
       /\ ~Stored("analysis") /\ ~Stored("brief") /\ ~Stored("article")
       /\ ~session_state.analysis_complete
       /\ session_state.current_step = 1

C11_Witness ==
    /\ input.event = "analyze"
    /\ input.competitor_content = ""
    /\ input.response.failed
    /\ output.alerts = <<RejectedText>>
    /\ session_state.current_step = 1

\* the configured count of secondary keywords
SecondaryCount == 10

\* C12: secondary_keywords is the frequency-ranked word sequence with the chosen
\* main keyword removed, cut to the first 10, in rank order; it never holds the
\* main keyword.
C12_SecondaryKeywords ==
    Returned("analyze")
    => LET chosen == MainKeyword(input.content)
           others == SelectSeq(Ranked(input.content), LAMBDA w : w # chosen)
       IN  /\ output.value.secondary_keywords = Slice(others, 0, SecondaryCount)
           /\ \A i \in 1..Len(output.value.secondary_keywords) :
                 output.value.secondary_keywords[i] # chosen

\* C13 as stated: semantic_keywords of every brief starts with the lower-cased
\* main keyword and holds no keyword twice.
C13_SemanticUnique ==
    Returned("brief")
    => LET semantic == output.value.semantic_keywords
       IN  /\ semantic[1] = StrLower(input.analysis.main_keyword)
           /\ \A i, j \in 1..Len(semantic) : i # j => semantic[i] # semantic[j]

\* C13 amended: semantic_keywords of every brief starts with the lower-cased
\* main keyword; the 24 core terms and then the secondary keywords of the
\* analysis follow it as they are, so a keyword can occur more than once.
C13_MainKeywordFirst ==
    Returned("brief")
    => LET semantic  == output.value.semantic_keywords
           secondary == input.analysis.secondary_keywords
       IN  /\ semantic[1] = StrLower(input.analysis.main_keyword)
           /\ Len(semantic) = 1 + 24 + Len(secondary)
           /\ \A i \in 1..Len(secondary) : semantic[1 + 24 + i] = secondary[i]

C13_Witness ==
    /\ Returned("brief")
    /\ LET semantic == output.value.semantic_keywords
       IN  /\ \E i \in 2..25 : semantic[i] = semantic[1]
           /\ \E i \in 2..25, j \in 26..Len(semantic) : semantic[i] = semantic[j]

\* C14 as stated: content_quality is high when word_count exceeds 800, and
\* otherwise medium or low by a second, lower threshold, so that each of the
\* three tiers is returned; whatever that lower threshold, a text of no word is
\* below it and is low.
C14_ThreeTiers ==
    Returned("analyze")
    => /\ output.value.word_count > QualityThreshold => output.value.content_quality = "high"
       /\ output.value.word_count <= QualityThreshold
             => output.value.content_quality \in {"medium", "low"}
       /\ output.value.word_count = 0 => output.value.content_quality = "low"

\* C14 amended: content_quality is derived from word_count with one threshold:
\* high when word_count exceeds 800, medium otherwise; low is never returned.
C14_TwoTiers ==
    Returned("analyze")
    => /\ output.value.word_count > 800 => output.value.content_quality = "high"
       /\ output.value.word_count <= 800 => output.value.content_quality = "medium"

C14_Witness ==
    /\ Returned("analyze")
    /\ output.value.word_count = 801
    /\ output.value.content_quality = "high"
    /\ output.value.main_keyword = "Guide"

\* the generator of the i-th section of a stored article
SectionOf(article, i) == article[2 * i + 2].generator

\* the answer template of the j-th FAQ question of a stored article of ten sections
AnswerOf(article, j) == article[2 + 2 * 10 + 1 + 2 * j].generator

\* C15: whatever the main keyword, the ten H2 headings of the brief are routed,
\* in order, to the what-is, who-needs, how-it-works, eligibility,
\* application-process, common-mistakes, costs, comparison, case-studies and
\* generic generators: the keyword in a heading never lets an earlier marker
\* capture it.
C15_HeadingRouting ==
    Stored("article")
    => LET expected == <<"what_is", "who_needs", "how_works", "eligibility", "application",
                         "mistakes", "costs", "comparison", "case_studies", "generic">>
       IN  /\ Len(session_state.brief.heading_structure.H2s) = 10
           /\ \A i \in 1..10 : SectionOf(session_state.article, i) = expected[i]

\* C16: whatever the main keyword, of the eight PAA questions of the brief the
\* first is answered by the requirements template, the seventh by the
\* processing-time template and the other six by the generic answer: the
\* lower-cased keyword in a question does not change the template.
C16_FaqRouting ==
    Stored("article")
    => LET expected == <<"requirements", "generic", "generic", "generic", "generic",
                         "generic", "processing_time", "generic">>
       IN  /\ Len(session_state.brief.paa_questions) = 8
           /\ \A j \in 1..8 : AnswerOf(session_state.article, j) = expected[j]

\* what one step leaves alone once the article is stored
C17_Step ==
    (Stored("article") /\ input'.event # "reset")
    => /\ Has(session_state', "article") /\ session_state'.article = session_state.article
       /\ Has(session_state', "analysis") /\ session_state'.analysis = session_state.analysis
       /\ Has(session_state', "brief") /\ session_state'.brief = session_state.brief
       /\ ~output'.composed

\* C17: once the article is stored, every later script run other than the reset
\* (a re-render of step 2, the move to step 3, a run of step 3) leaves the stored
\* article, analysis and brief as they are and does not call
\* generate_full_article, so no new random draw is made; only the reset removes
\* the article.
C17_ComposedOnce == [][C17_Step]_vars

C17_Witness ==
    /\ input.event = "render"
    /\ Rendered(2)
    /\ Stored("article")
    /\ ~output.composed
====
